---- MODULE Spec2Model ----
(***************************************************************************)
(* Model of the text-to-video pipeline of src/main.py: a script is parsed  *)
(* into slides (Script.parse_slides), missing voice-over audio is          *)
(* requested from the synthesis backend (generate_audio), slides are       *)
(* prepared, the render backend (make) is run, the timeline is composed    *)
(* and the video is written (main).                                        *)
(*                                                                         *)
(* Strings are sequences of one-character strings, so that strip, replace  *)
(* and escape are modelled by what they do.  A SHA-1 digest is represented *)
(* by the byte sequence fed to the hash (the hash is taken as injective).  *)
(***************************************************************************)
EXTENDS Integers, Sequences, FiniteSets, TLC

\* ------------------------------------------------------------------ bounds
\* Longest script (number of entries of Script.slides).
MaxScript == 3
\* Longest audio file, in the time unit of AudioFileClip.duration.
MaxDur == 3
\* Longest text given to the VoiceOver constructor.
MaxText == 2
\* Largest width or height of an image or of a frame.
MaxSide == 8

\* An Optional field: None, or the value in a one-element sequence.
None == <<>>
Some(x) == <<x>>

\* ----------------------------------------------------------------- strings
kImage == <<"i", "m", "a", "g", "e">>
kText == <<"t", "e", "x", "t">>
kCode == <<"c", "o", "d", "e">>
kExt == <<"e", "x", "t">>
kMinDuration == <<"m", "i", "n", "_", "d", "u", "r", "a", "t", "i", "o", "n">>

Whitespace == {" ", "\n", "\t"}

RECURSIVE lstrip(_)
lstrip(s) ==
    IF s # <<>> /\ Head(s) \in Whitespace THEN lstrip(Tail(s)) ELSE s

RECURSIVE rstrip(_)
rstrip(s) ==
    IF s # <<>> /\ s[Len(s)] \in Whitespace
    THEN rstrip(SubSeq(s, 1, Len(s) - 1))
    ELSE s

\* VoiceOver.validate_text: value.strip()
validate_text(value) == rstrip(lstrip(value))

\* VoiceOver.clean_text: text.replace("\n", " ")
clean_text(text) == [i \in 1..Len(text) |-> IF text[i] = "\n" THEN " " ELSE text[i]]

\* xml.sax.saxutils.escape: & < > become entities.
escape_char(c) ==
    CASE c = "&" -> <<"&", "a", "m", "p", ";">>
      [] c = "<" -> <<"&", "l", "t", ";">>
      [] c = ">" -> <<"&", "g", "t", ";">>
      [] OTHER -> <<c>>

RECURSIVE escape(_)
escape(s) == IF s = <<>> THEN <<>> ELSE escape_char(Head(s)) \o escape(Tail(s))

DefaultEndPause == <<"5", "0", "0", "m", "s">>

\* Mutant: the pause is always the default one, whatever end_pause says.
saml_text_default_pause(vo) ==
    <<"<", "s", "p", "e", "a", "k", ">">>
    \o escape(clean_text(vo.text))
    \o <<"<", "b", "r", "e", "a", "k", " ", "t", "i", "m", "e", "=", "'">>
    \o DefaultEndPause
    \o <<"'", "/", ">", "<", "/", "s", "p", "e", "a", "k", ">">>

\* VoiceOver.saml_text
saml_text(vo) ==
    <<"<", "s", "p", "e", "a", "k", ">">>
    \o escape(clean_text(vo.text))
    \o <<"<", "b", "r", "e", "a", "k", " ", "t", "i", "m", "e", "=", "'">>
    \o vo.end_pause
    \o <<"'", "/", ">", "<", "/", "s", "p", "e", "a", "k", ">">>

\* VoiceOver.filename_base: sha1 over character | voice | saml_text.
filename_base(vo) == vo.character \o <<"|">> \o vo.voice \o <<"|">> \o saml_text(vo)

\* VoiceOver(character=, voice=, text=, end_pause=): the validator strips the
\* text.
VoiceOverWith(character, voice, text, end_pause) ==
    [character |-> character, voice |-> voice,
     text |-> validate_text(text), end_pause |-> end_pause]

\* VoiceOver(character=, text=, voice=): end_pause takes its default.
VoiceOver(character, text, voice) ==
    VoiceOverWith(character, voice, text, DefaultEndPause)

\* CodeSlide.filename_base: sha1 over ext | code.
code_filename_base(slide) == slide.ext \o <<"|">> \o slide.content

\* ------------------------------------------------------------------ script
\* Script.characters, in the order of the document.
CharacterNames == << <<"A">>, <<"B">> >>

Characters ==
    (<<"A">> :> [image |-> <<"a">>, voice |-> <<"v">>])
    @@ (<<"B">> :> [image |-> <<"b">>, voice |-> <<"w">>])

\* A script entry is a mapping with ordered keys: a sequence of <<key, value>>.
Keys(item) == {item[i][1] : i \in DOMAIN item}
Get(item, k) == item[CHOOSE i \in DOMAIN item : item[i][1] = k][2]
GetOr(item, k, default) == IF k \in Keys(item) THEN Get(item, k) ELSE default

EntryPool ==
    { <<>>,
      << <<<<"A">>, <<"h", "i">>>> >>,
      << <<<<"B">>, <<" ", "a", "\n", "<">>>> >>,
      << <<<<"Z">>, <<"h", "i">>>> >>,
      << <<<<"A">>, <<"h", "i">>>>, <<<<"B">>, <<"y", "o">>>> >>,
      << <<kImage, <<"x">>>>, <<kMinDuration, 5>> >>,
      << <<kText, <<"t">>>> >>,
      << <<kCode, <<"c">>>>, <<kExt, <<"p", "y">>>> >> }

Scripts == UNION {[1..n -> EntryPool] : n \in 0..MaxScript}

\* SlideBase and its subclasses as one record; fields a subclass lacks are None.
EmptySlide ==
    [kind |-> "empty", voice_overs |-> <<>>, min_duration |-> None,
     content |-> <<>>, ext |-> <<>>]

SlideOf(kind, item, key) ==
    [kind |-> kind, voice_overs |-> <<>>,
     min_duration |-> IF kMinDuration \in Keys(item)
                      THEN Some(Get(item, kMinDuration)) ELSE None,
     content |-> Get(item, key),
     ext |-> GetOr(item, kExt, <<>>)]

\* Mutant: the voice-over goes to the first slide, not to the current one.
append_voice_over_first(slides, vo) ==
    [slides EXCEPT ![1].voice_overs = Append(@, vo)]

\* current_item.voice_overs.append(...): current_item is the slide appended last.
append_voice_over(slides, vo) ==
    [slides EXCEPT ![Len(slides)].voice_overs = Append(@, vo)]

\* Script.parse_slides, entry i onwards; current_item is the last element of
\* slides.  The result is the returned list, or the exception raised.
RECURSIVE parse_from(_, _, _)
parse_from(items, i, slides) ==
    IF i > Len(items) THEN [ok |-> TRUE, slides |-> slides]
    ELSE LET item == items[i] IN
      IF kImage \in Keys(item)
      THEN parse_from(items, i + 1, Append(slides, SlideOf("image", item, kImage)))
      ELSE IF kText \in Keys(item)
      THEN parse_from(items, i + 1, Append(slides, SlideOf("text", item, kText)))
      ELSE IF kCode \in Keys(item)
      THEN IF kExt \in Keys(item)
           THEN parse_from(items, i + 1, Append(slides, SlideOf("code", item, kCode)))
           ELSE [ok |-> FALSE, error |-> "ValidationError"]
      ELSE IF item = <<>>
      THEN [ok |-> FALSE, error |-> "IndexError"]
      ELSE LET key == item[1][1]
               value == item[1][2]
           IN IF key \notin DOMAIN Characters
              THEN [ok |-> FALSE, error |-> "KeyError"]
              ELSE parse_from(items, i + 1,
                     append_voice_over(slides,
                       VoiceOver(key, value, Characters[key].voice)))

parse_slides(items) == parse_from(items, 1, <<EmptySlide>>)

\* The cache keys of the voice-overs of a script: the audio files main may open.
VoiceKeys(items) ==
    UNION {LET r == parse_slides(<<items[i]>>)
           IN IF r.ok THEN {filename_base(r.slides[1].voice_overs[j]) :
                              j \in DOMAIN r.slides[1].voice_overs}
              ELSE {} : i \in DOMAIN items}

\* ------------------------------------------------------------------- state
VARIABLES
    script,        \* Script.slides, the input document
    duration,      \* AudioFileClip(path).duration of the audio of each cache key
    run,           \* "first" or "second" invocation of main on this script
    prev,          \* how the previous invocation ended ("none" in the first)
    pc,            \* position of main
    error,         \* the exception that ended main, or "none"
    slides,        \* main's slides
    audioFiles,    \* cache keys of the .wav files under AUDIO_ROOT
    codeFiles,     \* cache keys of the snippets under CODE_ROOT
    imageFiles,    \* cache keys of the .png files under IMAGE_ROOT
    request,       \* generate_audio's audio_requests, as rows
    synth,         \* this run's mimic3 call: "none", "ok" or "failed"
    codeWrites,    \* snippets written by prepare() in this run
    rendered,      \* images the render backend produced in this run
    video_clips,   \* main's video_clips
    audio_clips,   \* main's audio_clips
    last_clip_end, \* main's last_clip_end
    output,        \* the written video file, or None
    log,           \* the steps of this run, in order
    args,          \* the arguments of a call made outside a run of main
    result         \* what that call returned, or None

vars ==
    <<script, duration, run, prev, pc, error, slides, audioFiles, codeFiles,
      imageFiles, request, synth, codeWrites, rendered, video_clips,
      audio_clips, last_clip_end, output, log, args, result>>

cache == <<audioFiles, codeFiles, imageFiles>>
locals == <<slides, request, synth, codeWrites, rendered, video_clips,
            audio_clips, last_clip_end>>
inputs == <<script, duration, run, prev, args, result>>

Init ==
    /\ script \in Scripts
    /\ duration \in [VoiceKeys(script) -> 1..MaxDur]
    /\ run = "first"
    /\ prev = "none"
    /\ pc = "parse"
    /\ error = "none"
    /\ slides = <<>>
    /\ audioFiles = {}
    /\ codeFiles = {}
    /\ imageFiles = {}
    /\ request = <<>>
    /\ synth = "none"
    /\ codeWrites = <<>>
    /\ rendered = {}
    /\ video_clips = <<>>
    /\ audio_clips = <<>>
    /\ last_clip_end = 0
    /\ output = None
    /\ log = <<>>
    /\ args = None
    /\ result = None

\* main, line 320-321: the script is loaded and parsed.
Parse ==
    /\ pc = "parse"
    /\ LET r == parse_slides(script)
       IN IF r.ok
          THEN /\ slides' = r.slides
               /\ pc' = "audio"
               /\ error' = error
          ELSE /\ slides' = slides
               /\ pc' = "failed"
               /\ error' = r.error
    /\ UNCHANGED <<inputs, cache, request, synth, codeWrites, rendered,
                   video_clips, audio_clips, last_clip_end, output, log>>

\* ---------------------------------------------------------- generate_audio
\* Mutant: a row is written whether or not the .wav file exists.
write_audio_request_always(rows, vo, files) ==
    Append(rows, <<filename_base(vo), vo.voice, saml_text(vo)>>)

\* VoiceOver.write_audio_request: a row unless the .wav file exists.
write_audio_request(rows, vo, files) ==
    IF filename_base(vo) \in files
    THEN rows
    ELSE Append(rows, <<filename_base(vo), vo.voice, saml_text(vo)>>)

\* generate_audio's two loops, from voice-over j of slide k onwards.
RECURSIVE audio_requests(_, _, _, _, _)
audio_requests(ss, k, j, rows, files) ==
    IF k > Len(ss) THEN rows
    ELSE IF j > Len(ss[k].voice_overs) THEN audio_requests(ss, k + 1, 1, rows, files)
    ELSE audio_requests(ss, k, j + 1,
                        write_audio_request(rows, ss[k].voice_overs[j], files), files)

\* generate_audio: nothing is run for an empty request; otherwise mimic3 is run
\* once and its exit status is not looked at.  A failing backend has written
\* the files of the first n rows only.
GenerateAudio ==
    /\ pc = "audio"
    /\ LET rows == audio_requests(slides, 1, 1, <<>>, audioFiles)
       IN /\ request' = rows
          /\ IF rows = <<>>
             THEN /\ synth' = "none"
                  /\ audioFiles' = audioFiles
                  /\ log' = log
             ELSE \E n \in 0..Len(rows) :
                  /\ synth' = (IF n = Len(rows) THEN "ok" ELSE "failed")
                  /\ audioFiles' = audioFiles \cup {rows[i][1] : i \in 1..n}
                  /\ log' = Append(log, <<"synth", Len(rows)>>)
    /\ pc' = "prepare"
    /\ UNCHANGED <<inputs, error, slides, codeFiles, imageFiles, codeWrites,
                   rendered, video_clips, audio_clips, last_clip_end, output>>

\* ------------------------------------------------------------------ prepare
\* Mutant: CodeSlide.prepare writes the snippet even when the file exists.
snippet_always(slide, files) == slide.kind = "code"

\* CodeSlide.prepare writes the snippet unless the file exists; the prepare of
\* the other slides does nothing.
snippet_missing(slide, files) ==
    slide.kind = "code" /\ code_filename_base(slide) \notin files

\* The loop "for slide in slides: slide.prepare()", slide k onwards.
RECURSIVE prepare_all(_, _, _, _)
prepare_all(ss, k, files, writes) ==
    IF k > Len(ss) THEN [files |-> files, writes |-> writes]
    ELSE IF snippet_missing(ss[k], files)
    THEN prepare_all(ss, k + 1, files \cup {code_filename_base(ss[k])},
                     Append(writes, code_filename_base(ss[k])))
    ELSE prepare_all(ss, k + 1, files, writes)

Prepare ==
    /\ pc = "prepare"
    /\ LET r == prepare_all(slides, 1, codeFiles, <<>>)
       IN /\ codeFiles' = r.files
          /\ codeWrites' = r.writes
    /\ log' = log \o [k \in 1..Len(slides) |-> <<"prepare", k>>]
    /\ pc' = "make"
    /\ UNCHANGED <<inputs, error, slides, audioFiles, imageFiles, request, synth,
                   rendered, video_clips, audio_clips, last_clip_end, output>>

\* --------------------------------------------------------------------- make
\* The render backend: one image per snippet of the code cache, named by the
\* snippet's cache key; an image that exists is not produced again.
make_pending(codes, images) == codes \ images
make_render(codes, images) == images \cup codes

\* subprocess.run(["make"], check=True): a failing make raises.
Make ==
    /\ pc = "make"
    /\ log' = Append(log, <<"make", 0>>)
    /\ \E ok \in BOOLEAN :
         IF ok
         THEN /\ rendered' = make_pending(codeFiles, imageFiles)
              /\ imageFiles' = make_render(codeFiles, imageFiles)
              /\ pc' = "compose"
              /\ error' = error
         ELSE /\ rendered' = rendered
              /\ imageFiles' = imageFiles
              /\ pc' = "failed"
              /\ error' = "CalledProcessError"
    /\ UNCHANGED <<inputs, slides, audioFiles, codeFiles, request, synth,
                   codeWrites, video_clips, audio_clips, last_clip_end, output>>

\* ------------------------------------------------------------------ compose
\* A clip with its start and duration; slide and vo tell which slide and which
\* of its voice-overs the clip was made from (0 for the static clips).
Layer(kind, k, j, start, dur, what) ==
    [kind |-> kind, slide |-> k, vo |-> j, start |-> start, duration |-> dur,
     what |-> what]

\* The inner loop of main over slide.voice_overs, voice-over j onwards.
RECURSIVE compose_voice_overs(_, _, _, _, _)
compose_voice_overs(slide, k, j, acc, dur) ==
    IF j > Len(slide.voice_overs) THEN acc
    ELSE LET voice_over == slide.voice_overs[j]
             voice_over_duration == dur[filename_base(voice_over)]
         IN compose_voice_overs(slide, k, j + 1,
              [audio_clips |->
                 Append(acc.audio_clips,
                        Layer("audio", k, j, acc.caption_start,
                              voice_over_duration, filename_base(voice_over))),
               video_clips |->
                 Append(acc.video_clips,
                        Layer("caption", k, j, acc.caption_start,
                              voice_over_duration, clean_text(voice_over.text))),
               slide_duration |-> acc.slide_duration + voice_over_duration,
               caption_start |-> acc.caption_start + voice_over_duration],
              dur)

\* Mutant: min_duration is ignored.
floor_duration_ignored(slide, slide_duration) == slide_duration

\* Mutant: a declared min_duration replaces the duration, also a longer one.
floor_duration_always(slide, slide_duration) ==
    IF slide.min_duration # None THEN slide.min_duration[1] ELSE slide_duration

\* The slide's duration once its voice-overs are placed: min_duration is a floor.
floor_duration(slide, slide_duration) ==
    IF slide.min_duration # None /\ slide_duration < slide.min_duration[1]
    THEN slide.min_duration[1]
    ELSE slide_duration

\* as_clip() of an EmptySlide is None; every other slide has a clip.
has_clip(slide) == slide.kind # "empty"

\* Mutant: the captions of every slide start at 0, not at last_clip_end.
compose_slide_from_zero(slide, k, st, dur) ==
    LET acc == compose_voice_overs(slide, k, 1,
                 [audio_clips |-> st.audio_clips, video_clips |-> st.video_clips,
                  slide_duration |-> 0, caption_start |-> 0], dur)
        slide_duration == floor_duration(slide, acc.slide_duration)
    IN [audio_clips |-> acc.audio_clips,
        video_clips |->
          IF has_clip(slide)
          THEN Append(acc.video_clips,
                      Layer("slide", k, 0, st.last_clip_end, slide_duration,
                            slide.content))
          ELSE acc.video_clips,
        last_clip_end |-> st.last_clip_end + slide_duration]

\* Mutant: the slide's clip is put at the front of video_clips.
compose_slide_clip_first(slide, k, st, dur) ==
    LET acc == compose_voice_overs(slide, k, 1,
                 [audio_clips |-> st.audio_clips, video_clips |-> st.video_clips,
                  slide_duration |-> 0, caption_start |-> st.last_clip_end], dur)
        slide_duration == floor_duration(slide, acc.slide_duration)
    IN [audio_clips |-> acc.audio_clips,
        video_clips |->
          IF has_clip(slide)
          THEN <<Layer("slide", k, 0, st.last_clip_end, slide_duration,
                       slide.content)>> \o acc.video_clips
          ELSE acc.video_clips,
        last_clip_end |-> st.last_clip_end + slide_duration]

\* One iteration of the outer loop of main, for slide k.
compose_slide(slide, k, st, dur) ==
    LET acc == compose_voice_overs(slide, k, 1,
                 [audio_clips |-> st.audio_clips, video_clips |-> st.video_clips,
                  slide_duration |-> 0, caption_start |-> st.last_clip_end], dur)
        slide_duration == floor_duration(slide, acc.slide_duration)
    IN [audio_clips |-> acc.audio_clips,
        video_clips |->
          IF has_clip(slide)
          THEN Append(acc.video_clips,
                      Layer("slide", k, 0, st.last_clip_end, slide_duration,
                            slide.content))
          ELSE acc.video_clips,
        last_clip_end |-> st.last_clip_end + slide_duration]

RECURSIVE compose_slides(_, _, _, _)
compose_slides(ss, k, st, dur) ==
    IF k > Len(ss) THEN st
    ELSE compose_slides(ss, k + 1, compose_slide(ss[k], k, st, dur), dur)

\* Mutant: the fill of the caption frame is appended, not inserted at 0.
add_static_images_appended(clips, total) ==
    clips
    \o <<Layer("background", 0, 0, 0, total, <<>>)>>
    \o [c \in 1..Len(CharacterNames) |->
          Layer("portrait", 0, c, 0, total, Characters[CharacterNames[c]].image)]

\* "add static images": the fill of the caption frame goes to the front of
\* video_clips, one portrait per character to the back.
add_static_images(clips, total) ==
    <<Layer("background", 0, 0, 0, total, <<>>)>>
    \o clips
    \o [c \in 1..Len(CharacterNames) |->
          Layer("portrait", 0, c, 0, total, Characters[CharacterNames[c]].image)]

\* AudioFileClip and Image.open raise when the file is not there.
artifacts_present(ss, audio, images) ==
    \A k \in DOMAIN ss :
      /\ \A j \in DOMAIN ss[k].voice_overs :
           filename_base(ss[k].voice_overs[j]) \in audio
      /\ ss[k].kind = "code" => code_filename_base(ss[k]) \in images

\* Mutant: a missing artifact is recorded but composition goes on to the write.
Compose_goes_on ==
    /\ pc = "compose"
    /\ log' = Append(log, <<"compose", 0>>)
    /\ LET st == compose_slides(slides, 1,
                    [audio_clips |-> <<>>, video_clips |-> <<>>,
                     last_clip_end |-> 0],
                    duration)
       IN /\ audio_clips' = st.audio_clips
          /\ video_clips' = add_static_images(st.video_clips, st.last_clip_end)
          /\ last_clip_end' = st.last_clip_end
    /\ pc' = "write"
    /\ error' = (IF artifacts_present(slides, audioFiles, imageFiles)
                 THEN error ELSE "OSError")
    /\ UNCHANGED <<inputs, slides, cache, request, synth, codeWrites, rendered,
                   output>>

\* main, line 327-386.
Compose ==
    /\ pc = "compose"
    /\ log' = Append(log, <<"compose", 0>>)
    /\ IF artifacts_present(slides, audioFiles, imageFiles)
       THEN LET st == compose_slides(slides, 1,
                        [audio_clips |-> <<>>, video_clips |-> <<>>,
                         last_clip_end |-> 0], duration)
            IN /\ audio_clips' = st.audio_clips
               /\ video_clips' = add_static_images(st.video_clips, st.last_clip_end)
               /\ last_clip_end' = st.last_clip_end
               /\ pc' = "write"
               /\ error' = error
       ELSE /\ UNCHANGED <<audio_clips, video_clips, last_clip_end>>
            /\ pc' = "failed"
            /\ error' = "OSError"
    /\ UNCHANGED <<inputs, slides, cache, request, synth, codeWrites, rendered,
                   output>>

\* main, line 387-390: write_videofile.
Write ==
    /\ pc = "write"
    /\ output' = Some([video |-> video_clips, audio |-> audio_clips,
                       duration |-> last_clip_end])
    /\ log' = Append(log, <<"write", 0>>)
    /\ pc' = "done"
    /\ UNCHANGED <<inputs, error, locals, cache>>

\* The command is run again on the same script; the caches and the output file
\* are as the first run left them.
Rerun ==
    /\ pc \in {"done", "failed"}
    /\ run = "first"
    /\ run' = "second"
    /\ prev' = pc
    /\ pc' = "parse"
    /\ error' = "none"
    /\ slides' = <<>>
    /\ request' = <<>>
    /\ synth' = "none"
    /\ codeWrites' = <<>>
    /\ rendered' = {}
    /\ video_clips' = <<>>
    /\ audio_clips' = <<>>
    /\ last_clip_end' = 0
    /\ log' = <<>>
    /\ UNCHANGED <<script, duration, cache, output, args, result>>

Next ==
    \/ Parse
    \/ GenerateAudio
    \/ Prepare
    \/ Make
    \/ Compose
    \/ Write
    \/ Rerun

Spec == Init /\ [][Next]_vars

\* ------------------------------------------------- VoiceOver.filename_base
\* main is not running: the calls below are made on their own.
NoRun ==
    /\ script = <<>>
    /\ duration = <<>>
    /\ run = "first"
    /\ prev = "none"
    /\ pc = "idle"
    /\ error = "none"
    /\ slides = <<>>
    /\ audioFiles = {}
    /\ codeFiles = {}
    /\ imageFiles = {}
    /\ request = <<>>
    /\ synth = "none"
    /\ codeWrites = <<>>
    /\ rendered = {}
    /\ video_clips = <<>>
    /\ audio_clips = <<>>
    /\ last_clip_end = 0
    /\ output = None
    /\ log = <<>>

RECURSIVE SeqsUpTo(_, _)
SeqsUpTo(S, n) ==
    IF n = 0 THEN {<<>>}
    ELSE LET shorter == SeqsUpTo(S, n - 1)
         IN shorter \cup {Append(t, c) : t \in shorter, c \in S}

\* The values given to the VoiceOver constructor.
KeyInputs ==
    [character : {<<"A">>, <<"A", "|">>},
     voice : {<<"v">>, <<"|", "v">>},
     text : SeqsUpTo({"a", " ", "\n", "&"}, MaxText),
     end_pause : {DefaultEndPause, <<"1", "s">>}]

VoiceOverFields == {"character", "voice", "text", "end_pause"}
DiffFields(a, b) == {f \in VoiceOverFields : a[f] # b[f]}

\* Two constructor calls whose inputs differ in at most one field.
KeyInit ==
    /\ NoRun
    /\ args \in {p \in [a : KeyInputs, b : KeyInputs] :
                    Cardinality(DiffFields(p.a, p.b)) <= 1}
    /\ result = None

\* Both voice-overs are built and their filename_base is read.
BuildKeys ==
    /\ pc = "idle"
    /\ result = None
    /\ "a" \in DOMAIN args
    /\ result' =
         Some([a |-> filename_base(VoiceOverWith(args.a.character, args.a.voice,
                                                 args.a.text, args.a.end_pause)),
               b |-> filename_base(VoiceOverWith(args.b.character, args.b.voice,
                                                 args.b.text, args.b.end_pause))])
    /\ UNCHANGED <<script, duration, run, prev, args, pc, error, locals, cache,
                   output, log>>

KeyNext == BuildKeys

KeySpec == KeyInit /\ [][KeyNext]_vars

\* ================================================================== claims
\* Sum of f over 1..n.
RECURSIVE SumTo(_, _)
SumTo(f, n) == IF n = 0 THEN 0 ELSE f[n] + SumTo(f, n - 1)

\* Concatenation of the sequences seqs[1..n].
RECURSIVE ConcatTo(_, _)
ConcatTo(seqs, n) == IF n = 0 THEN <<>> ELSE ConcatTo(seqs, n - 1) \o seqs[n]

\* The elements of s at the positions in I, in order.
RECURSIVE Pick(_, _, _)
Pick(s, I, n) ==
    IF n = 0 THEN <<>>
    ELSE IF n \in I THEN Append(Pick(s, I, n - 1), s[n]) ELSE Pick(s, I, n - 1)

ReservedKeys == {kImage, kText, kCode}
IsSlideEntry(item) == Keys(item) \cap ReservedKeys # {}
SlideEntries(items) == {i \in DOMAIN items : IsSlideEntry(items[i])}
VoiceEntries(items) == DOMAIN items \ SlideEntries(items)
\* The voice-over a voice-over entry stands for.
EntryVoiceOver(item) ==
    [character |-> item[1][1], voice |-> Characters[item[1][1]].voice,
     text |-> validate_text(item[1][2]), end_pause |-> DefaultEndPause]
\* The slide an entry belongs to: 1 (the Empty slide) plus the slide entries
\* before it.
OwnerOf(items, i) == 1 + Cardinality({m \in SlideEntries(items) : m < i})
ScriptVoiceOvers(items) ==
    [i \in DOMAIN items |->
       IF i \in VoiceEntries(items) THEN EntryVoiceOver(items[i]) ELSE <<>>]

Parsed == slides # <<>>

\* C1: when parse_slides returns, the first slide is Empty, there is one more
\* slide than image/text/code entries, every voice-over entry is attached to
\* the slide of the closest preceding image/text/code entry (the Empty slide
\* when there is none), and the slides' voice-over lists concatenated in slide
\* order are the script's voice-over entries in their order.
C1_ParseSlidesOwnership ==
    Parsed =>
      /\ slides[1].kind = "empty"
      /\ Len(slides) = 1 + Cardinality(SlideEntries(script))
      /\ \A k \in DOMAIN slides :
           slides[k].voice_overs =
             Pick(ScriptVoiceOvers(script),
                  {i \in VoiceEntries(script) : OwnerOf(script, i) = k},
                  Len(script))
      /\ ConcatTo([k \in DOMAIN slides |-> slides[k].voice_overs], Len(slides))
           = Pick(ScriptVoiceOvers(script), VoiceEntries(script), Len(script))

\* A voice-over before the first slide entry and one after it.
C1_Witness ==
    /\ Parsed
    /\ Len(slides) = 2
    /\ slides[1].voice_overs # <<>>
    /\ slides[2].voice_overs # <<>>

\* An entry of none of the recognized shapes: the empty mapping, or several
\* keys none of which is image, text or code.
Unrecognized(item) == item = <<>> \/ (Len(item) > 1 /\ ~IsSlideEntry(item))

\* C2: a script with an entry of none of the recognized shapes fails to parse:
\* no slide sequence is returned and the run ends in an error.
C2_MalformedEntryFails ==
    (\E i \in DOMAIN script : Unrecognized(script[i]))
      => /\ ~Parsed
         /\ pc \in {"parse", "failed"}

\* All voice-overs of a slide sequence, in slide order.
AllVoiceOvers(ss) == ConcatTo([k \in DOMAIN ss |-> ss[k].voice_overs], Len(ss))
RowOf(vo) == <<filename_base(vo), vo.voice, saml_text(vo)>>
SynthCalls(l) == Cardinality({i \in DOMAIN l : l[i][1] = "synth"})

\* C3: a step of generate_audio leaves a request with exactly the rows of the
\* voice-overs whose audio file was not in the cache, in voice-over order, and
\* has run the synthesis backend once, or not at all when no file was missing.
C3_RequestIsCacheMisses ==
    [][pc = "audio" =>
         LET vos == AllVoiceOvers(slides)
             missing == {i \in DOMAIN vos : filename_base(vos[i]) \notin audioFiles}
             rows == Pick([i \in DOMAIN vos |-> RowOf(vos[i])], missing, Len(vos))
         IN /\ request' = rows
            /\ SynthCalls(log') = (IF missing = {} THEN 0 ELSE 1)
            /\ (missing = {}) => (synth' = "none" /\ audioFiles' = audioFiles)]_vars

\* A request that leaves out a voice-over whose file is in the cache.
C3_Witness ==
    /\ pc = "prepare"
    /\ request # <<>>
    /\ Len(request) < Len(AllVoiceOvers(slides))

\* C4: in a second run that follows a completed first run, nothing is asked of
\* the synthesis backend, no snippet is written for the render backend and the
\* render backend produces no image.
C4_SecondRunIssuesNothing ==
    (run = "second" /\ prev = "done") =>
      /\ request = <<>>
      /\ synth = "none"
      /\ SynthCalls(log) = 0
      /\ codeWrites = <<>>
      /\ rendered = {}

\* A second run that went through all its steps, on a script with a
\* voice-over and a code slide.
C4_Witness ==
    /\ run = "second"
    /\ prev = "done"
    /\ pc = "done"
    /\ AllVoiceOvers(slides) # <<>>
    /\ \E k \in DOMAIN slides : slides[k].kind = "code"

\* C5: once the synthesis backend has failed, the run has ended in an error
\* and no later step (prepare, make, composition, write) has been taken.
C5_FailedSynthesisIsFatal ==
    synth = "failed" =>
      /\ pc = "failed"
      /\ \A i \in DOMAIN log : log[i][1] = "synth"

\* ------------------------------------------------------ composition claims
\* The composition loop has run to its end.
Composed == pc \in {"write", "done"}

VoiceDuration(k, j) == duration[filename_base(slides[k].voice_overs[j])]
\* Audio time of the first n voice-overs of slide k.
VoiceTime(k, n) == SumTo([j \in 1..n |-> VoiceDuration(k, j)], n)
\* Duration of slide k: its audio time, or min_duration when that is larger.
SlideDuration(k) ==
    LET total == VoiceTime(k, Len(slides[k].voice_overs))
        m == slides[k].min_duration
    IN IF m # None /\ m[1] > total THEN m[1] ELSE total
\* Sum of the durations of the slides before slide k.
Cursor(k) == SumTo([i \in 1..(k - 1) |-> SlideDuration(i)], k - 1)

LayersOf(clips, kind, k) ==
    {i \in DOMAIN clips : clips[i].kind = kind /\ clips[i].slide = k}
LayerAt(clips, kind, k, j) ==
    {i \in DOMAIN clips :
       clips[i].kind = kind /\ clips[i].slide = k /\ clips[i].vo = j}

\* C6: after composition, the j-th voice-over of slide k has one audio layer
\* and one caption layer, both starting at (durations of the slides before k)
\* + (audio durations of the first j-1 voice-overs of k) and lasting the
\* voice-over's audio duration; a slide with a visual has it over
\* [cursor, cursor + slide duration); the total is the sum of slide durations.
C6_LayerTimes ==
    Composed =>
      /\ \A k \in DOMAIN slides :
           /\ \A j \in DOMAIN slides[k].voice_overs :
                /\ \E i \in DOMAIN audio_clips :
                     /\ LayerAt(audio_clips, "audio", k, j) = {i}
                     /\ audio_clips[i].start = Cursor(k) + VoiceTime(k, j - 1)
                     /\ audio_clips[i].duration = VoiceDuration(k, j)
                /\ \E i \in DOMAIN video_clips :
                     /\ LayerAt(video_clips, "caption", k, j) = {i}
                     /\ video_clips[i].start = Cursor(k) + VoiceTime(k, j - 1)
                     /\ video_clips[i].duration = VoiceDuration(k, j)
           /\ slides[k].kind # "empty" =>
                \E i \in DOMAIN video_clips :
                  /\ LayersOf(video_clips, "slide", k) = {i}
                  /\ video_clips[i].start = Cursor(k)
                  /\ video_clips[i].duration = SlideDuration(k)
           /\ slides[k].kind = "empty" => LayersOf(video_clips, "slide", k) = {}
      /\ last_clip_end = Cursor(Len(slides) + 1)

\* A second voice-over placed after the first one, and a slide visual placed
\* after the slide before it.
C6_Witness ==
    /\ Composed
    /\ \E i \in DOMAIN audio_clips : audio_clips[i].vo = 2 /\ audio_clips[i].start > 0
    /\ \E i \in DOMAIN video_clips :
         video_clips[i].kind = "slide" /\ video_clips[i].start > 0

Max(a, b) == IF a > b THEN a ELSE b
LayerTime(clips, I) ==
    LET idx == Pick([i \in DOMAIN clips |-> clips[i].duration], I, Len(clips))
    IN SumTo(idx, Len(idx))
\* The start of the first layer made from slide k, over both lists; the
\* timeline's end when there is no slide k.
StartOfSlide(k) ==
    IF k > Len(slides) THEN {last_clip_end}
    ELSE {video_clips[i].start : i \in {i \in DOMAIN video_clips :
                                          video_clips[i].slide = k}}
         \cup {audio_clips[i].start : i \in {i \in DOMAIN audio_clips :
                                               audio_clips[i].slide = k}}

C7_WitnessAbove ==
    /\ Composed
    /\ \E k \in DOMAIN slides :
         /\ slides[k].min_duration # None
         /\ VoiceTime(k, Len(slides[k].voice_overs)) > slides[k].min_duration[1]

\* Every layer handed to the composition backend.
OutputLayers ==
    {video_clips[i] : i \in DOMAIN video_clips}
    \cup {audio_clips[i] : i \in DOMAIN audio_clips}

\* C8 as stated: every layer has start >= 0, duration > 0 and ends within the
\* timeline.
C8_LayersPositive ==
    Composed =>
      \A l \in OutputLayers :
        /\ l.start >= 0
        /\ l.duration > 0
        /\ l.start + l.duration <= last_clip_end

\* C8, amended: every layer has start >= 0, duration >= 0 and ends within the
\* timeline; audio and caption layers have duration > 0.
C8_LayersWithinTimeline ==
    Composed =>
      \A l \in OutputLayers :
        /\ l.start >= 0
        /\ l.duration >= 0
        /\ l.kind \in {"audio", "caption"} => l.duration > 0
        /\ l.start + l.duration <= last_clip_end

\* A timeline with a zero-duration slide visual next to layers that last.
C8_Witness ==
    /\ Composed
    /\ \E l \in OutputLayers : l.kind = "slide" /\ l.duration = 0
    /\ \E l \in OutputLayers : l.kind = "caption" /\ l.start > 0
    /\ \E l \in OutputLayers : l.kind = "portrait" /\ l.duration > 0

\* C9: in both lists the layers made from slides keep script order: a layer of
\* an earlier slide comes before every layer of a later slide, and the audio
\* layers and the caption layers of one slide come in voice-over order.
InScriptOrder(clips) ==
    \A p, q \in DOMAIN clips :
      /\ (clips[p].slide >= 1 /\ clips[q].slide >= 1
          /\ clips[p].slide < clips[q].slide) => p < q
      /\ (clips[p].slide >= 1 /\ clips[p].slide = clips[q].slide
          /\ clips[p].kind = clips[q].kind /\ clips[p].vo < clips[q].vo) => p < q

C9_LayersInScriptOrder ==
    Composed => (InScriptOrder(video_clips) /\ InScriptOrder(audio_clips))

\* Layers of two slides, one of them with two voice-overs.
C9_Witness ==
    /\ Composed
    /\ \E p, q \in DOMAIN video_clips :
         video_clips[p].slide = 1 /\ video_clips[q].slide = 2
    /\ \E p \in DOMAIN audio_clips : audio_clips[p].vo = 2

StaticLayers(clips) == {i \in DOMAIN clips : clips[i].kind \in {"background", "portrait"}}
SlideLayers(clips) == {i \in DOMAIN clips : clips[i].slide >= 1}

\* C10 as stated: the background fill and the portraits come after every
\* slide's caption and visual layers, each lasting the whole timeline.
C10_StaticLayersLast ==
    Composed =>
      /\ \A p \in SlideLayers(video_clips) : \A q \in StaticLayers(video_clips) : p < q
      /\ \A q \in StaticLayers(video_clips) :
           video_clips[q].duration = last_clip_end

\* C10, amended: the background fill is the first layer of the visual list,
\* before every slide's layers; the portraits, one per character in the order
\* of the characters, come after every slide's layers; each of them lasts the
\* whole timeline.
C10_BackgroundFirstPortraitsLast ==
    Composed =>
      LET n == Len(video_clips)
          c == Len(CharacterNames)
      IN /\ n >= 1 + c
         /\ video_clips[1].kind = "background"
         /\ \A i \in 1..c :
              /\ video_clips[n - c + i].kind = "portrait"
              /\ video_clips[n - c + i].what = Characters[CharacterNames[i]].image
         /\ StaticLayers(video_clips) = {1} \cup ((n - c + 1)..n)
         /\ SlideLayers(video_clips) = 2..(n - c)
         /\ \A q \in StaticLayers(video_clips) :
              /\ video_clips[q].start = 0
              /\ video_clips[q].duration = last_clip_end

\* A composed timeline with caption and slide layers between the static ones.
C10_Witness ==
    /\ Composed
    /\ \E p \in SlideLayers(video_clips) : video_clips[p].kind = "caption"
    /\ \E p \in SlideLayers(video_clips) : video_clips[p].kind = "slide"
    /\ last_clip_end > 0

\* ------------------------------------------------------------ ImageSlide.fit
\* A float as the fraction n/d, d > 0.
Frac(n, d) == [n |-> n, d |-> d]
FracGt(p, q) == p.n * q.d > q.n * p.d
FracEq(p, q) == p.n * q.d = q.n * p.d
FracLe(p, q) == p.n * q.d <= q.n * p.d

\* frame_x + (frame_width - width) * 0.5
centred(frame_x, frame_width, width) ==
    Frac(2 * frame_x * width.d + frame_width * width.d - width.n, 2 * width.d)

\* ImageSlide.fit: the size given to resize and the position given to
\* set_position.
fit(image_width, image_height, frame_x, frame_y, frame_width, frame_height, zoom_to_fit, zoom) ==
    LET wider == FracGt(Frac(image_width, frame_width),
                        Frac(image_height, frame_height))
        by_width == [width |-> Frac(frame_width, 1),
                     height |-> Frac(frame_width * image_height, image_width)]
        by_height == [width |-> Frac(frame_height * image_width, image_height),
                      height |-> Frac(frame_height, 1)]
        size ==
          IF zoom # None
          THEN [width |-> Frac(image_width * zoom[1].n, zoom[1].d),
                height |-> Frac(image_height * zoom[1].n, zoom[1].d)]
          ELSE IF image_width > frame_width \/ image_height > frame_height
          THEN (IF wider THEN by_width ELSE by_height)
          ELSE IF zoom_to_fit
          THEN (IF wider THEN by_height ELSE by_width)
          ELSE [width |-> Frac(image_width, 1), height |-> Frac(image_height, 1)]
    IN [width |-> size.width, height |-> size.height,
        x |-> centred(frame_x, frame_width, size.width),
        y |-> centred(frame_y, frame_height, size.height)]

\* An image of any size, a frame of any size at one of two places, with and
\* without zoom_to_fit and a fixed zoom.
FitInit ==
    /\ NoRun
    /\ args \in [image_width : 1..MaxSide, image_height : 1..MaxSide,
                 frame_x : {0, 1}, frame_y : {0},
                 frame_width : 1..MaxSide, frame_height : 1..MaxSide,
                 zoom_to_fit : BOOLEAN, zoom : {None, Some(Frac(1, 2))}]
    /\ result = None

Fit ==
    /\ pc = "idle"
    /\ result = None
    /\ "image_width" \in DOMAIN args
    /\ result' = Some(fit(args.image_width, args.image_height, args.frame_x,
                          args.frame_y, args.frame_width, args.frame_height,
                          args.zoom_to_fit, args.zoom))
    /\ UNCHANGED <<script, duration, run, prev, args, pc, error, locals, cache,
                   output, log>>

FitNext == Fit

FitSpec == FitInit /\ [][FitNext]_vars

\* ---------------------------------------------------------- cache-key claim
KeysBuilt == pc = "idle" /\ "a" \in DOMAIN args /\ result # None

\* The text as it is spoken: without the whitespace around it, and with a
\* space for every line break.
Ink(t) == {i \in DOMAIN t : t[i] \notin Whitespace}
Trimmed(t) ==
    IF Ink(t) = {} THEN <<>>
    ELSE SubSeq(t, CHOOSE i \in Ink(t) : \A m \in Ink(t) : i <= m,
                   CHOOSE i \in Ink(t) : \A m \in Ink(t) : i >= m)
Spoken(t) ==
    LET u == Trimmed(t) IN [i \in DOMAIN u |-> IF u[i] = "\n" THEN " " ELSE u[i]]

\* C11 as stated: identical inputs give identical keys, and inputs that differ
\* in exactly one of character, voice, text, end_pause give different keys.
C11_KeySensitiveToEveryField ==
    KeysBuilt =>
      /\ args.a = args.b => result[1].a = result[1].b
      /\ Cardinality(DiffFields(args.a, args.b)) = 1 => result[1].a # result[1].b

\* C11, amended: identical inputs give identical keys; inputs that differ in
\* exactly one of character, voice, end_pause give different keys; inputs that
\* differ in text only give different keys unless the two texts are the same
\* once trimmed and with line breaks turned into spaces, and then the keys are
\* the same.
C11_KeySensitiveToSpokenText ==
    KeysBuilt =>
      /\ args.a = args.b => result[1].a = result[1].b
      /\ (Cardinality(DiffFields(args.a, args.b)) = 1
          /\ DiffFields(args.a, args.b) # {"text"}) => result[1].a # result[1].b
      /\ DiffFields(args.a, args.b) = {"text"} =>
           (result[1].a = result[1].b <=> Spoken(args.a.text) = Spoken(args.b.text))

\* Two texts that differ in what is spoken, an escaped character among them,
\* and two different keys.
C11_Witness ==
    /\ KeysBuilt
    /\ DiffFields(args.a, args.b) = {"text"}
    /\ Spoken(args.a.text) # Spoken(args.b.text)
    /\ \E i \in DOMAIN args.a.text : args.a.text[i] = "&"
    /\ result[1].a # result[1].b

\* ------------------------------------------------------------ image-fit claim
Fitted == pc = "idle" /\ "image_width" \in DOMAIN args /\ result # None

\* C12: without a fixed zoom, an image that exceeds the frame in a dimension,
\* or any image under zoom_to_fit, gets a size of the image's aspect ratio that
\* exceeds the frame in neither dimension and equals it in at least one, and
\* is centred on both axes.
C12_FitInsideFrame ==
    (/\ Fitted
     /\ args.zoom = None
     /\ \/ args.image_width > args.frame_width
        \/ args.image_height > args.frame_height
        \/ args.zoom_to_fit)
      => LET r == result[1]
             fw == Frac(args.frame_width, 1)
             fh == Frac(args.frame_height, 1)
         IN /\ r.width.n * r.height.d * args.image_height
                 = r.height.n * r.width.d * args.image_width
            /\ FracLe(r.width, fw)
            /\ FracLe(r.height, fh)
            /\ FracEq(r.width, fw) \/ FracEq(r.height, fh)
            /\ 2 * (r.x.n - args.frame_x * r.x.d) * r.width.d + r.width.n * r.x.d
                 = args.frame_width * r.x.d * r.width.d
            /\ 2 * (r.y.n - args.frame_y * r.y.d) * r.height.d + r.height.n * r.y.d
                 = args.frame_height * r.y.d * r.height.d

\* C12's second example, in units of 100: frame 4x3, image 1x1, zoom_to_fit
\* gives 3x3.
C12_GrowExample ==
    (/\ Fitted
     /\ args.zoom = None /\ args.zoom_to_fit
     /\ args.frame_width = 4 /\ args.frame_height = 3
     /\ args.image_width = 1 /\ args.image_height = 1)
      => /\ FracEq(result[1].width, Frac(3, 1))
         /\ FracEq(result[1].height, Frac(3, 1))

\* C12's first example, in units of 100: frame 4x3 at 0, image 8x3 gives 4x1.5
\* at y-offset 0.75.
C12_ShrinkExample ==
    (/\ Fitted
     /\ args.zoom = None /\ ~args.zoom_to_fit /\ args.frame_x = 0
     /\ args.frame_width = 4 /\ args.frame_height = 3
     /\ args.image_width = 8 /\ args.image_height = 3)
      => /\ FracEq(result[1].width, Frac(4, 1))
         /\ FracEq(result[1].height, Frac(3, 2))
         /\ FracEq(result[1].y, Frac(3, 4))
         /\ FracEq(result[1].x, Frac(0, 1))

\* ------------------------------------------------------------- order of steps
IsPrefix(a, b) == Len(a) <= Len(b) /\ a = SubSeq(b, 1, Len(a))

SynthStep == IF request # <<>> THEN << <<"synth", Len(request)>> >> ELSE <<>>
PrepareSteps == [k \in 1..Len(slides) |-> <<"prepare", k>>]
\* The steps of a run that goes through: the synthesis request (when a
\* voice-over misses its file), prepare of slide 1, 2, ..., make, the
\* composition, the write.
RunSteps ==
    SynthStep \o PrepareSteps
    \o << <<"make", 0>>, <<"compose", 0>>, <<"write", 0>> >>

Written == \E i \in DOMAIN log : log[i][1] = "write"

\* C13: the steps taken so far in a run of main are a beginning of: synthesis
\* request, prepare of every slide once in slide order, one make, composition,
\* write; main is exactly as far as its position says; and a run in which a
\* step raised an error has stopped there and has not written the output.
C13_StepsInOrder ==
    pc # "idle" =>
      /\ IsPrefix(log, RunSteps)
      /\ pc \in {"parse", "audio"} => log = <<>>
      /\ pc = "prepare" => log = SynthStep
      /\ pc = "make" => log = SynthStep \o PrepareSteps
      /\ pc = "compose" => log = SynthStep \o PrepareSteps \o << <<"make", 0>> >>
      /\ pc = "write" =>
           log = SynthStep \o PrepareSteps \o << <<"make", 0>>, <<"compose", 0>> >>
      /\ pc = "done" => log = RunSteps
      /\ (pc = "failed") <=> (error # "none")
      /\ error # "none" => (~Written /\ (run = "first" => output = None))
      /\ Written => (pc = "done" /\ output # None)

\* A run that went through all steps, with a synthesis request and two slides.
C13_Witness ==
    /\ pc = "done"
    /\ request # <<>>
    /\ Len(slides) >= 2
    /\ log = RunSteps

\* A run that a failing make ended after the prepare of two slides.
C13_WitnessFailed ==
    /\ pc = "failed"
    /\ error = "CalledProcessError"
    /\ Len(slides) >= 2
    /\ ~Written

====
